---- MODULE Spec2Model ----
(***************************************************************************)
(* Authenticated sessions of cloudant/_common_util.py: ClientSession,      *)
(* CookieSession and IAMSession.  A step of the model is one call of the   *)
(* transport (requests.Session.request) together with the code of the      *)
(* handler that runs up to the next transport call.  The server and the    *)
(* network are the environment: every transport call draws its outcome     *)
(* from a small set (a response with a status and a body, or a transport   *)
(* failure).                                                               *)
(***************************************************************************)
EXTENDS FiniteSets, Integers, Sequences, TLC

VARIABLES
    variant,     \* "cookie" (CookieSession) or "iam" (IAMSession)
    auto_renew,  \* self._auto_renew
    timeout,     \* self._timeout
    token_url,   \* self._token_url (IAMSession)
    cookies,     \* self.cookies: (host, cookie name) -> "absent" | "live" |
                 \* "expired"
    set_cookie,  \* the Set-Cookie headers of the response the transport
                 \* received last
    op,          \* per caller: the public method it called last
    prevOp,      \* per caller: "logout" when the call before that was
                 \* logout(), "none" otherwise
    pc,          \* per caller: the next transport call of the running method
    ret,         \* per caller: where the running login() returns to
    req,         \* per caller: (method, url, kwargs) given to request()
    trace,       \* per caller: what the running call did so far, in order
    result,      \* per caller: what the call returned or raised
    fn,          \* the function of the parameter codec that was applied
    options,     \* its argument: the options, a sequence of (key, val)
    feed,        \* the argument of feed_arg_types
    issued,      \* the requests get_docs issued through r_session
    produced     \* what the function returned or raised

vars == <<variant, auto_renew, timeout, token_url, cookies, set_cookie, op,
          prevOp, pc, ret, req, trace, result, fn, options, feed, issued,
          produced>>

session == <<variant, auto_renew, timeout, token_url>>

codec == <<fn, options, feed, issued, produced>>

\* ------------------------------------------------------------------ domains

Callers == {1, 2}

\* The callers that act under Spec: one caller, one call at a time.
SeqCallers == {1}

Variants == {"cookie", "iam"}

Timeouts == {"None", "30s"}

\* The host of the Cloudant server, which the urls of the session's own
\* endpoints and of the caller's requests name.
ServerHost == "server"

\* The default of IAM_TOKEN_URL, on a host of its own.
DefaultTokenUrl == "https://iam.bluemix.net/oidc/token"

\* os.environ.get('IAM_TOKEN_URL', default): the default, or a token
\* endpoint configured on the host of the server.
TokenUrls == {DefaultTokenUrl, "https://server/token"}

\* The host a url names.
HostOf(url) == IF url = DefaultTokenUrl THEN "iam.bluemix.net" ELSE ServerHost

Hosts == {ServerHost, "iam.bluemix.net"}

CookieNames == {"AuthSession", "IAMSession", "Other"}

\* The jar keeps one cookie per host and name (all paths are "/").
Cookies == Hosts \X CookieNames

\* Statuses a server answers with; 0 stands for no response at all (the
\* transport raised a RequestException such as ConnectionError or Timeout).
Statuses == {200, 401, 403, 500}

\* The statuses of the answers to the caller's own request: those, and one
\* that is neither a success nor an error.
RequestStatuses == Statuses \cup {304}

\* What resp.json() of a response to the caller's request gives: an object
\* whose error is credentials_expired, another object, a JSON value that is
\* no object (an array, a string, null), or no JSON at all.
Bodies == {"json:credentials_expired", "json:other", "json:nonobject", "notjson"}

\* What resp.json() of the token service's response gives: an object with
\* access_token, an object with errorMessage only, an empty object, a JSON
\* value that is no object, or no JSON at all.
TokenBodies == {"token", "errmsg", "empty", "array", "notjson"}

Methods == {"GET", "POST"}

Urls == {"/db", "/db/_all_docs"}

Kwargs == {"none", "params"}

\* What the caller gives to request(): a read without kwargs, a query with
\* them.
Requests ==
    {r \in [method : Methods, url : Urls, kwargs : Kwargs] :
        \/ r.method = "GET" /\ r.url = "/db" /\ r.kwargs = "none"
        \/ r.method = "POST" /\ r.url = "/db/_all_docs" /\ r.kwargs = "params"}

\* What the Set-Cookie headers of a response say of one cookie: nothing,
\* a value to store, or an expiry date in the past.
CookieEffects == {"none", "set", "expire"}

\* The Set-Cookie headers of a response, which may be several: what they
\* say of the session cookie and of another cookie.  The responses of the
\* model have none, one for the session cookie (a value or an expiry), one
\* that sets another cookie, or two that set both.
SetCookieHeaders ==
    {h \in [session : CookieEffects, other : CookieEffects] :
        h.other # "none" => h.session # "expire" /\ h.other = "set"}

NoSetCookie == [session |-> "none", other |-> "none"]

TransportFailure == [status |-> 0, body |-> "-", setc |-> NoSetCookie]

\* Outcomes of the caller's request.
RequestOutcomes ==
    [status : RequestStatuses, body : Bodies, setc : SetCookieHeaders]
        \cup {TransportFailure}

\* Outcomes of POST/DELETE _session and POST _iam_session: the code reads
\* the status only.
SessionOutcomes ==
    [status : Statuses, body : {"json:other"}, setc : SetCookieHeaders]
        \cup {TransportFailure}

\* Outcomes of the POST to the token service.
TokenOutcomes ==
    [status : Statuses, body : TokenBodies, setc : SetCookieHeaders]
        \cup {TransportFailure}

\* ------------------------------------------------------------------ records

Ev(e) ==
    [ev |-> e, by |-> "-", method |-> "-", url |-> "-", kwargs |-> "-",
     timeout |-> "-", status |-> 0, body |-> "-"]

NoResult == [kind |-> "none", status |-> 0, body |-> "-", err |-> "-"]

\* A method that returns None (login, logout).
NoneResult == [kind |-> "returned", status |-> 0, body |-> "-", err |-> "-"]

RespResult(out) ==
    [kind |-> "resp", status |-> out.status, body |-> out.body, err |-> "-"]

ErrResult(e) == [kind |-> "error", status |-> 0, body |-> "-", err |-> e]

\* ---------------------------------------------------------- parameter codec

\* The longest list of keys the inputs hold.
MaxSeqLen == 2

\* Python values: every value is a record of the same shape, `kind` being
\* its runtime type, type(val).  "code" is _Code, the str subclass of this
\* module; "namedtuple" is a tuple subclass, a Sequence that is neither
\* list nor tuple by exact type; "set" is a set, which is no Sequence and
\* which json cannot encode.
PyVal(kind, n, s, items) == [kind |-> kind, n |-> n, s |-> s, items |-> items]

PyBool(b) == PyVal("bool", IF b THEN 1 ELSE 0, "", <<>>)

PyInt(n) == PyVal("int", n, "", <<>>)

PyStr(s) == PyVal("str", 0, s, <<>>)

PyCode(s) == PyVal("code", 0, s, <<>>)

PyNone == PyVal("none", 0, "", <<>>)

PyFloat == PyVal("float", 0, "1.5", <<>>)

PyDict == PyVal("dict", 0, "", <<>>)

PyList(q) == PyVal("list", 0, "", q)

PyTuple(q) == PyVal("tuple", 0, "", q)

PyNamedTuple(q) == PyVal("namedtuple", 0, "", q)

PySet == PyVal("set", 0, "", <<>>)

\* The elements of the sequences: an integer, a string, a boolean.
Item(kind, n, s) == [kind |-> kind, n |-> n, s |-> s]

Items == {Item("int", 1, ""), Item("str", 0, "a"), Item("bool", 1, "")}

ItemSeqs == UNION {[1..k -> Items] : k \in 0..MaxSeqLen}

Strings == {"foo", "ok", "update_after", "bogus"}

Values ==
    {PyBool(TRUE), PyBool(FALSE), PyInt(0), PyInt(5), PyNone, PyFloat, PyDict,
     PySet, PyCode("ok"),
     PyNamedTuple(<<Item("int", 1, ""), Item("str", 0, "a")>>)}
    \cup {PyStr(s) : s \in Strings}
    \cup {PyList(q) : q \in ItemSeqs}
    \cup {PyTuple(q) : q \in ItemSeqs}

\* isinstance(val, t) for the types the tables name.  LONGTYPE, STRTYPE,
\* UNITYPE and NONETYPE are the aliases of ._2to3: int, str, str and
\* type(None).  bool is a subclass of int; str, list and tuple are
\* Sequences.
IsInstance(kind, t) ==
    CASE t = "bool" -> kind = "bool"
      [] t \in {"int", "LONGTYPE"} -> kind \in {"int", "bool"}
      [] t = "STRTYPE" -> kind \in {"str", "code"}
      [] t = "NONETYPE" -> kind = "none"
      [] t = "list" -> kind = "list"
      [] t = "Sequence" ->
            kind \in {"str", "code", "list", "tuple", "namedtuple"}
      [] OTHER -> FALSE

\* isinstance(val, types) for a tuple of types.
IsInstanceAny(kind, types) == \E t \in types : IsInstance(kind, t)

RESULT_ARG_TYPES ==
    ("descending" :> {"bool"})
    @@ ("endkey" :> {"int", "LONGTYPE", "STRTYPE", "Sequence"})
    @@ ("endkey_docid" :> {"STRTYPE"})
    @@ ("group" :> {"bool"})
    @@ ("group_level" :> {"int", "LONGTYPE", "NONETYPE"})
    @@ ("include_docs" :> {"bool"})
    @@ ("inclusive_end" :> {"bool"})
    @@ ("key" :> {"int", "LONGTYPE", "STRTYPE", "Sequence"})
    @@ ("keys" :> {"list"})
    @@ ("limit" :> {"int", "LONGTYPE", "NONETYPE"})
    @@ ("reduce" :> {"bool"})
    @@ ("skip" :> {"int", "LONGTYPE", "NONETYPE"})
    @@ ("stale" :> {"STRTYPE"})
    @@ ("startkey" :> {"int", "LONGTYPE", "STRTYPE", "Sequence"})
    @@ ("startkey_docid" :> {"STRTYPE"})

\* Mutant of BoolWhereInt: a boolean passes where an integer is declared.
BoolWhereInt_Never(kind, types) == FALSE

\* type(val) is bool and int in RESULT_ARG_TYPES[key]
BoolWhereInt(kind, types) == kind = "bool" /\ "int" \in types

\* Mutant of StaleValues: only "ok" is allowed.
StaleValues_OnlyOk == {"ok"}

\* ('ok', 'update_after')
StaleValues == {"ok", "update_after"}

\* py_to_couch_validate: "ok", or the CloudantArgumentError it raises
\* (116 UnknownOption, 117 InvalidType, 134 InvalidKeyListItem,
\* 135 InvalidStaleValue).
py_to_couch_validate(key, val) ==
    IF key \notin DOMAIN RESULT_ARG_TYPES THEN "UnknownOption"
    ELSE IF \/ ~IsInstanceAny(val.kind, RESULT_ARG_TYPES[key])
            \/ BoolWhereInt(val.kind, RESULT_ARG_TYPES[key])
         THEN "InvalidType"
    ELSE IF /\ key = "keys"
            /\ \E i \in 1..Len(val.items) :
                  \/ ~IsInstanceAny(val.items[i].kind, RESULT_ARG_TYPES["key"])
                  \/ val.items[i].kind = "bool"
         THEN "InvalidKeyListItem"
    ELSE IF key = "stale" /\ val.s \notin StaleValues THEN "InvalidStaleValue"
    ELSE "ok"

\* json.dumps of a str without characters to escape.
Quote(s) == "\"" \o s \o "\""

\* Mutant of BoolLiteral: str(x), the Python spelling.
BoolLiteral_Python(n) == IF n = 1 THEN "True" ELSE "False"

\* 'true' if x else 'false'
BoolLiteral(n) == IF n = 1 THEN "true" ELSE "false"

\* json.dumps of an element of a sequence.
JsonItem(e) ==
    CASE e.kind = "int" -> ToString(e.n)
      [] e.kind = "str" -> Quote(e.s)
      [] e.kind = "bool" -> IF e.n = 1 THEN "true" ELSE "false"

RECURSIVE JsonItems_Reversed(_)
\* Mutant of JsonItems: the elements are written last to first.
JsonItems_Reversed(q) ==
    IF q = <<>> THEN ""
    ELSE IF Len(q) = 1 THEN JsonItem(q[1])
    ELSE JsonItems_Reversed(Tail(q)) \o ", " \o JsonItem(q[1])

RECURSIVE JsonItems(_)
\* json.dumps joins the elements of an array with ", ", first to last.
JsonItems(q) ==
    IF q = <<>> THEN ""
    ELSE IF Len(q) = 1 THEN JsonItem(q[1])
    ELSE JsonItem(q[1]) \o ", " \o JsonItems(Tail(q))

\* Whether the default JSONEncoder has an encoding for x; json.dumps raises
\* TypeError when it has none.
Serializable(val) == val.kind # "set"

\* json.dumps(x) of a value that has an encoding: a str (and its
\* subclasses) is quoted, a list and a tuple (and their subclasses) become
\* an array.
JsonDumps(val) ==
    CASE val.kind \in {"str", "code"} -> Quote(val.s)
      [] val.kind = "int" -> ToString(val.n)
      [] val.kind = "bool" -> IF val.n = 1 THEN "true" ELSE "false"
      [] val.kind = "none" -> "null"
      [] val.kind = "float" -> val.s
      [] val.kind = "dict" -> "{}"
      [] val.kind \in {"list", "tuple", "namedtuple"} ->
            "[" \o JsonItems(val.items) \o "]"

\* TYPE_CONVERTERS.get(type(val)): the table is keyed by the exact type,
\* and has no entry for any other type.
TYPE_CONVERTERS(kind) ==
    CASE kind = "str" -> "dumps"
      [] kind = "list" -> "dumps"
      [] kind = "tuple" -> "dumps_list"
      [] kind = "int" -> "identity"
      [] kind = "bool" -> "literal"
      [] kind = "none" -> "identity"
      [] OTHER -> "None"

\* arg_converter(val)
ApplyConverter(conv, val) ==
    CASE conv \in {"dumps", "dumps_list"} -> PyStr(JsonDumps(val))
      [] conv = "literal" -> PyStr(BoolLiteral(val.n))
      [] conv = "identity" -> val

PassthroughKeys == {"keys", "endkey_docid", "startkey_docid", "stale"}

\* _py_to_couch_translate: the converted value, or ConversionError (136)
\* for any exception, calling the missing converter None included.
py_to_couch_translate(key, val) ==
    IF key \in PassthroughKeys THEN [err |-> "none", val |-> val]
    ELSE IF val.kind = "none" THEN [err |-> "none", val |-> PyNone]
    ELSE IF TYPE_CONVERTERS(val.kind) = "None"
         THEN [err |-> "ConversionError", val |-> PyNone]
    ELSE [err |-> "none",
          val |-> ApplyConverter(TYPE_CONVERTERS(val.kind), val)]

RECURSIVE TranslateLoop(_, _)
\* The loop of python_to_couch: validate, then translate, entry by entry;
\* the first exception ends the call and no mapping is returned.
TranslateLoop(rest, translation) ==
    IF rest = <<>> THEN [err |-> "none", map |-> translation]
    ELSE LET key == Head(rest).key
             val == Head(rest).val
         IN IF py_to_couch_validate(key, val) # "ok"
            THEN [err |-> py_to_couch_validate(key, val), map |-> <<>>]
            ELSE IF py_to_couch_translate(key, val).err # "none"
            THEN [err |-> py_to_couch_translate(key, val).err, map |-> <<>>]
            ELSE TranslateLoop(Tail(rest),
                     Append(translation,
                            [key |-> key,
                             val |-> py_to_couch_translate(key, val).val]))

python_to_couch(opts) == TranslateLoop(opts, <<>>)

\* dict.update: the entries of u replace those of d.
Update(d, u) == u @@ d

COUCH_DB_UPDATES_ARG_TYPES ==
    ("feed" :> {"STRTYPE"})
    @@ ("heartbeat" :> {"bool"})
    @@ ("timeout" :> {"int", "LONGTYPE", "NONETYPE"})

\* Mutant of DB_UPDATES_ARG_TYPES: the CouchDB table is not merged in.
DB_UPDATES_ARG_TYPES_NoUpdate ==
    ("descending" :> {"bool"})
    @@ ("limit" :> {"int", "LONGTYPE", "NONETYPE"})
    @@ ("since" :> {"int", "LONGTYPE", "STRTYPE"})
    @@ ("heartbeat" :> {"int", "LONGTYPE", "NONETYPE"})

DB_UPDATES_ARG_TYPES ==
    Update(Update(("descending" :> {"bool"})
                  @@ ("limit" :> {"int", "LONGTYPE", "NONETYPE"})
                  @@ ("since" :> {"int", "LONGTYPE", "STRTYPE"}),
                  COUCH_DB_UPDATES_ARG_TYPES),
           "heartbeat" :> {"int", "LONGTYPE", "NONETYPE"})

CHANGES_ARG_TYPES ==
    Update(("conflicts" :> {"bool"})
           @@ ("doc_ids" :> {"list"})
           @@ ("filter" :> {"STRTYPE"})
           @@ ("include_docs" :> {"bool"})
           @@ ("style" :> {"STRTYPE"}),
           DB_UPDATES_ARG_TYPES)

feed_arg_types(feed_type) ==
    IF feed_type = "Cloudant" THEN DB_UPDATES_ARG_TYPES
    ELSE IF feed_type = "CouchDB" THEN COUCH_DB_UPDATES_ARG_TYPES
    ELSE CHANGES_ARG_TYPES

\* The headers argument of get_docs: None, or a dict of header fields.
HeadersNone == [given |-> FALSE, fields |-> {}]

HeaderInputs ==
    {HeadersNone,
     [given |-> TRUE, fields |-> {<<"Accept", "text/plain">>}],
     [given |-> TRUE, fields |-> {<<"Content-Type", "text/plain">>}]}

\* headers = {} if None; headers[name] = value
SetHeader(h, name, value) ==
    [given |-> TRUE,
     fields |-> {f \in h.fields : f[1] # name} \cup {<<name, value>>}]

\* params.pop('keys', None): the value popped ...
KeysList(params) ==
    IF \E i \in 1..Len(params) : params[i].key = "keys"
    THEN params[CHOOSE i \in 1..Len(params) : params[i].key = "keys"].val
    ELSE PyNone

IsNotKeys(e) == e.key # "keys"

\* ... and the params that remain.
Popped(params) == SelectSeq(params, IsNotKeys)

\* json.dumps({'keys': keys_list}, cls=encoder) with the default encoder:
\* the text, or the TypeError of a value that has no encoding.
KeysBody(keys_list) ==
    IF Serializable(keys_list)
    THEN [err |-> "none", s |-> "{\"keys\": " \o JsonDumps(keys_list) \o "}"]
    ELSE [err |-> "TypeError", s |-> ""]

\* The exception that leaves get_docs before it calls r_session, "none" if
\* there is none: json.dumps of the keys runs first, python_to_couch of the
\* other params second.
RaisedBeforeRequest(params) ==
    IF KeysList(params) # PyNone /\ KeysBody(KeysList(params)).err # "none"
    THEN KeysBody(KeysList(params)).err
    ELSE python_to_couch(Popped(params)).err

\* f_params = python_to_couch(params)
FetchParams(params) == python_to_couch(params)

\* The request get_docs hands to r_session: a POST with the keys as its
\* body if keys_list is not None, a GET otherwise.
DocRequest(params, headers) ==
    IF KeysList(params).kind # "none"
    THEN [method |-> "POST",
          headers |-> SetHeader(headers, "Content-Type", "application/json"),
          params |-> FetchParams(Popped(params)).map,
          data |-> PyStr(KeysBody(KeysList(params)).s)]
    ELSE [method |-> "GET", headers |-> headers,
          params |-> FetchParams(Popped(params)).map, data |-> PyNone]

\* What a function of the codec returned or raised.
EmptyTable == [k \in {} |-> {}]

NoOut ==
    [err |-> "none", val |-> PyNone, map |-> <<>>, table |-> EmptyTable]

Raised(e) == [NoOut EXCEPT !.err = e]

\* No function of the codec has been applied.
CodecIdle ==
    /\ fn = "none"
    /\ options = <<>>
    /\ feed = "none"
    /\ issued = <<>>
    /\ produced = NoOut

\* ------------------------------------------------------------- pure helpers

\* Mutant of ClientRequest: the timeout is not handed to the transport, which
\* then waits without a limit.
ClientRequest_NoTimeout(by, method, url, kwargs, out) ==
    [ev |-> "send", by |-> by, method |-> method, url |-> url,
     kwargs |-> kwargs, timeout |-> "None", status |-> out.status,
     body |-> out.body]

\* ClientSession.request: forwards to the transport with timeout=self._timeout.
ClientRequest(by, method, url, kwargs, out) ==
    [ev |-> "send", by |-> by, method |-> method, url |-> url,
     kwargs |-> kwargs, timeout |-> timeout, status |-> out.status,
     body |-> out.body]

\* Mutant of RaisesForStatus: only server errors raise.
RaisesForStatus_ServerOnly(status) == status >= 500 /\ status < 600

\* requests' Response.raise_for_status: HTTPError for 4xx and 5xx.
RaisesForStatus(status) == status >= 400 /\ status < 600

\* Mutant of ClearExpired: the expired cookies stay in the jar.
ClearExpired_Keep(jar) == jar

\* cookies.clear_expired_cookies()
ClearExpired(jar) ==
    [k \in Cookies |-> IF jar[k] = "expired" THEN "absent" ELSE jar[k]]

\* cookies.keys(): the names of the cookies of the jar, of every host.
CookieKeys(jar) == {k[2] : k \in {j \in Cookies : jar[j] # "absent"}}

\* cookies.clear()
ClearAll(jar) == [k \in Cookies |-> "absent"]

\* The name of the session cookie of the variant.
SessionCookie == IF variant = "cookie" THEN "AuthSession" ELSE "IAMSession"

\* What the headers setc say of the cookie called n.
EffectOn(setc, n) ==
    IF n = SessionCookie THEN setc.session
    ELSE IF n = "Other" THEN setc.other
    ELSE "none"

\* The transport's extract_cookies for a response from host: whatever the
\* status, each cookie the Set-Cookie headers give a value is stored under
\* the host of the response and its name, and each they expire is removed
\* from there; the cookies of other hosts stay.
StoreCookies(jar, host, setc) ==
    [k \in Cookies |->
        IF k[1] # host \/ EffectOn(setc, k[2]) = "none" THEN jar[k]
        ELSE IF EffectOn(setc, k[2]) = "set" THEN "live"
        ELSE "absent"]

EmptyJar == [k \in Cookies |-> "absent"]

Init ==
    /\ variant \in Variants
    /\ auto_renew \in BOOLEAN
    /\ timeout \in Timeouts
    /\ token_url \in (IF variant = "iam" THEN TokenUrls ELSE {"-"})
    /\ cookies = EmptyJar
    /\ set_cookie = NoSetCookie
    /\ op = [c \in Callers |-> "none"]
    /\ prevOp = [c \in Callers |-> "none"]
    /\ pc = [c \in Callers |-> "done"]
    /\ ret = [c \in Callers |-> "done"]
    /\ req = [c \in Callers |-> [method |-> "GET", url |-> "/db", kwargs |-> "none"]]
    /\ trace = [c \in Callers |-> <<>>]
    /\ result = [c \in Callers |-> NoResult]
    /\ CodecIdle


\* ---------------------------------------------------------------- decisions

SessionUrl == IF variant = "cookie" THEN "_session" ELSE "_iam_session"

\* The first transport call of login(): CookieSession.login posts to
\* _session, IAMSession.login starts with _get_access_token.
LoginEntry == IF variant = "cookie" THEN "login_post" ELSE "token_post"

\* Mutant of RenewEnabled: the auto_renew flag is not consulted.
RenewEnabled_Always(renew) == TRUE

\* "if not self._auto_renew: return resp"
RenewEnabled(renew) == renew

\* IAMSession.request: "if self._auto_renew and 'IAMSession' not in
\* self.cookies.keys()", evaluated after clear_expired_cookies().
NeedsLogin(renew, jar) == renew /\ "IAMSession" \notin CookieKeys(jar)

\* Mutant of IsExpired: every 403 counts as an expired cookie.
IsExpired_Any403(out) == out.status = 403 \/ out.status = 401

\* CookieSession.request, is_expired, for a response whose body is a JSON
\* object.
IsExpired(out) ==
    \/ out.status = 403 /\ out.body = "json:credentials_expired"
    \/ out.status = 401

\* CookieSession.request after a response, auto_renew on.  The tuple given
\* to any() is built eagerly, so resp.json().get('error') runs for every
\* 403: the ValueError of a body that is no JSON and the AttributeError of
\* a JSON value that is no object leave request().
CookieVerdict(out) ==
    IF out.status = 403 /\ out.body = "notjson" THEN "ValueError"
    ELSE IF out.status = 403 /\ out.body = "json:nonobject"
         THEN "AttributeError"
    ELSE IF IsExpired(out) THEN "renew"
    ELSE "return"

\* Mutant of IAMVerdict: a 403 renews as well.
IAMVerdict_Or403(out) ==
    IF out.status = 401 \/ out.status = 403 THEN "renew" ELSE "return"

\* IAMSession.request after a response, auto_renew on.
IAMVerdict(out) == IF out.status = 401 THEN "renew" ELSE "return"

\* What request() does with the response to its first attempt.
FirstVerdict(out) ==
    IF ~RenewEnabled(auto_renew) THEN "return"
    ELSE IF variant = "cookie" THEN CookieVerdict(out)
    ELSE IAMVerdict(out)

\* Mutant of ReissueVerdict: the check of the response is a loop, so the
\* reissued response is inspected like the first one.
ReissueVerdict_Loop(out) == FirstVerdict(out)

\* What request() does with the response to the reissued request:
\* "resp = super().request(method, url, **kwargs)" and then "return resp".
ReissueVerdict(out) == "return"

\* Mutant of Reissued: the request is sent again without its kwargs.
Reissued_NoKwargs(r) == [r EXCEPT !.kwargs = "none"]

\* The request that is sent again after the renewal: the same method, url
\* and kwargs.
Reissued(r) == r

\* info(): resp.raise_for_status(); return resp.json()
InfoReturn(res) ==
    IF res.kind # "resp" THEN res
    ELSE IF RaisesForStatus(res.status) THEN ErrResult("HTTPError")
    ELSE IF res.body = "notjson" THEN ErrResult("ValueError")
    ELSE [res EXCEPT !.kind = "json"]

\* get_docs: resp.raise_for_status(); return resp
DocsReturn(res) ==
    IF res.kind = "resp" /\ RaisesForStatus(res.status)
    THEN ErrResult("HTTPError")
    ELSE res

\* What the caller of request() does with what request() returns.
Returned(c, res) ==
    IF op[c] = "info" THEN InfoReturn(res)
    ELSE IF op[c] = "get_docs" THEN DocsReturn(res)
    ELSE res

TokenServiceFailed == "CloudantException:Failed to contact IAM token service"

TokenServiceMessage == "CloudantException:<errorMessage of the response>"

InvalidTokenResponse == "CloudantException:Invalid response from IAM token service"

ExchangeFailed == "CloudantException:Failed to exchange IAM token with Cloudant"

GotToken == [kind |-> "token", status |-> 0, body |-> "-", err |-> "-"]

\* IAMSession._get_access_token on the outcome of its POST: the set of the
\* results it can have.  resp.json() of a body that is no JSON raises
\* ValueError; in requests >= 2.27 that error is also a RequestException and
\* is caught, in older versions it is not.  .get on a JSON value that is no
\* object raises AttributeError, which no handler catches.
AccessToken(out) ==
    IF out.status = 0 THEN {ErrResult(TokenServiceFailed)}
    ELSE IF out.body = "notjson"
        THEN {ErrResult("ValueError"), ErrResult(TokenServiceFailed)}
    ELSE IF out.body = "array" THEN {ErrResult("AttributeError")}
    ELSE IF RaisesForStatus(out.status)
        THEN {ErrResult(IF out.body = "errmsg" THEN TokenServiceMessage
                        ELSE TokenServiceFailed)}
    ELSE IF out.body = "token" THEN {GotToken}
    ELSE {ErrResult(InvalidTokenResponse)}

\* Mutant of ExchangeFollows: login() goes on although no token was obtained.
ExchangeFollows_Always(tok) == TRUE

\* IAMSession.login: the exchange is posted once _get_access_token returned.
ExchangeFollows(tok) == tok.kind = "token"

\* Mutant of LogoutJar: only the IAM session cookie is removed.
LogoutJar_OnlyIAM(jar) ==
    [k \in Cookies |-> IF k[2] = "IAMSession" THEN "absent" ELSE jar[k]]

\* IAMSession.logout: self.cookies.clear()
LogoutJar(jar) == ClearAll(jar)

\* ------------------------------------------------------------------ actions

\* The transport received the outcome out of a request to host: the cookies
\* of a response are stored before the caller sees it.
Received(host, out) ==
    /\ set_cookie' = out.setc
    /\ cookies' = StoreCookies(cookies, host, out.setc)

Finish(c, tr, res) ==
    /\ trace' = [trace EXCEPT ![c] = tr]
    /\ pc' = [pc EXCEPT ![c] = "done"]
    /\ result' = [result EXCEPT ![c] = res]
    /\ UNCHANGED ret

Goto(c, tr, p, r) ==
    /\ trace' = [trace EXCEPT ![c] = tr]
    /\ pc' = [pc EXCEPT ![c] = p]
    /\ ret' = [ret EXCEPT ![c] = r]
    /\ UNCHANGED result

\* login() returned to the code that called it.
LoginReturns(c, tr) ==
    IF ret[c] = "done" THEN Finish(c, tr, NoneResult)
    ELSE Goto(c, tr, ret[c], "done")

\* A call is entered: the record of the previous call is dropped.
BeginCall(c, o, r) ==
    /\ pc[c] = "done"
    /\ op' = [op EXCEPT ![c] = o]
    /\ prevOp' = [prevOp EXCEPT
                     ![c] = IF op[c] = "logout" THEN "logout" ELSE "none"]
    /\ req' = [req EXCEPT ![c] = r]
    /\ UNCHANGED <<session, set_cookie>>

\* A public method of the session is entered.
Begin(c, o, r) == BeginCall(c, o, r) /\ UNCHANGED codec

\* The entered method runs up to its first transport call.
Start(c, tr, p, r) ==
    /\ trace' = [trace EXCEPT ![c] = tr]
    /\ pc' = [pc EXCEPT ![c] = p]
    /\ ret' = [ret EXCEPT ![c] = r]
    /\ result' = [result EXCEPT ![c] = NoResult]

\* request() up to its first transport call.
Enter(c) ==
    IF variant = "iam"
      THEN /\ cookies' = ClearExpired(cookies)
           /\ IF NeedsLogin(auto_renew, ClearExpired(cookies))
                THEN Start(c, <<Ev("login_call")>>, LoginEntry, "req_first")
                ELSE Start(c, <<>>, "req_first", "done")
      ELSE /\ cookies' = cookies
           /\ Start(c, <<>>, "req_first", "done")

\* request(), called by the caller or by a method of the session.
EnterRequest(c, o, r) == Begin(c, o, r) /\ Enter(c)

CallRequest(c) == \E r \in Requests : EnterRequest(c, "request", r)

\* info(): self.get(self._session_url), which is self.request('GET', ...).
CallInfo(c) ==
    EnterRequest(c, "info",
        [method |-> "GET", url |-> SessionUrl, kwargs |-> "allow_redirects"])

CallLogin(c) ==
    /\ Begin(c, "login", req[c])
    /\ Start(c, <<Ev("login_call")>>, LoginEntry, "done")
    /\ UNCHANGED cookies

CallLogout(c) ==
    /\ Begin(c, "logout", req[c])
    /\ IF variant = "iam"
         THEN /\ cookies' = LogoutJar(cookies)
              /\ Finish(c, <<>>, NoneResult)
         ELSE /\ Start(c, <<>>, "logout_delete", "done")
              /\ UNCHANGED cookies

\* One attempt of the caller's request and what request() does with it.
Attempt(c, r, out, verdict) ==
    LET sent == Append(trace[c],
                    ClientRequest("request", r.method, r.url, r.kwargs, out))
    IN  /\ Received(HostOf(r.url), out)
        /\ IF out.status = 0
             THEN Finish(c, sent, ErrResult("RequestException"))
           ELSE IF verdict = "renew"
             THEN Goto(c, Append(sent, Ev("login_call")), LoginEntry,
                       "req_reissue")
           ELSE IF verdict \in {"ValueError", "AttributeError"}
             THEN Finish(c, sent, ErrResult(verdict))
           ELSE Finish(c, sent, Returned(c, RespResult(out)))
        /\ UNCHANGED <<codec, session, op, prevOp, req>>

SendFirst(c) ==
    /\ pc[c] = "req_first"
    /\ \E out \in RequestOutcomes : Attempt(c, req[c], out, FirstVerdict(out))

SendReissue(c) ==
    /\ pc[c] = "req_reissue"
    /\ \E out \in RequestOutcomes :
          Attempt(c, Reissued(req[c]), out, ReissueVerdict(out))

\* CookieSession.login
LoginPost(c) ==
    /\ pc[c] = "login_post"
    /\ \E out \in SessionOutcomes :
        LET sent == Append(trace[c],
                ClientRequest("login", "POST", "_session", "credentials", out))
        IN  /\ Received(ServerHost, out)
            /\ IF out.status = 0
                 THEN Finish(c, Append(sent, Ev("login_raise")),
                             ErrResult("RequestException"))
               ELSE IF RaisesForStatus(out.status)
                 THEN Finish(c, Append(sent, Ev("login_raise")),
                             ErrResult("HTTPError"))
               ELSE LoginReturns(c, Append(sent, Ev("login_ret")))
    /\ UNCHANGED <<codec, session, op, prevOp, req>>

\* CookieSession.logout
LogoutDelete(c) ==
    /\ pc[c] = "logout_delete"
    /\ \E out \in SessionOutcomes :
        LET sent == Append(trace[c],
                ClientRequest("logout", "DELETE", "_session", "none", out))
        IN  /\ Received(ServerHost, out)
            /\ IF out.status = 0
                 THEN Finish(c, sent, ErrResult("RequestException"))
               ELSE IF RaisesForStatus(out.status)
                 THEN Finish(c, sent, ErrResult("HTTPError"))
               ELSE Finish(c, sent, NoneResult)
    /\ UNCHANGED <<codec, session, op, prevOp, req>>

\* IAMSession._get_access_token, called first by IAMSession.login; the
\* transport stores the cookies of the token response like any other.
TokenPost(c) ==
    /\ pc[c] = "token_post"
    /\ \E out \in TokenOutcomes : \E tok \in AccessToken(out) :
        LET sent == Append(trace[c],
                ClientRequest("token", "POST", token_url, "apikey", out))
        IN  /\ Received(HostOf(token_url), out)
            /\ IF ExchangeFollows(tok)
                 THEN Goto(c, sent, "iam_post", ret[c])
                 ELSE Finish(c, Append(sent, Ev("login_raise")), tok)
    /\ UNCHANGED <<codec, session, op, prevOp, req>>

\* IAMSession.login after _get_access_token: the exchange for the cookie.
IamPost(c) ==
    /\ pc[c] = "iam_post"
    /\ \E out \in SessionOutcomes :
        LET sent == Append(trace[c],
                ClientRequest("login", "POST", "_iam_session", "access_token",
                              out))
        IN  /\ Received(ServerHost, out)
            /\ IF out.status = 0 \/ RaisesForStatus(out.status)
                 THEN Finish(c, Append(sent, Ev("login_raise")),
                             ErrResult(ExchangeFailed))
                 ELSE LoginReturns(c, Append(sent, Ev("login_ret")))
    /\ UNCHANGED <<codec, session, op, prevOp, req>>

\* Time passes: a cookie of the jar, whatever its name and host, reaches
\* its expiry date.
Expire ==
    /\ \E k \in Cookies :
        /\ cookies[k] = "live"
        /\ cookies' = [cookies EXCEPT ![k] = "expired"]
    /\ UNCHANGED <<codec, session, set_cookie, op, prevOp, pc, ret, req,
                   trace, result>>

Step(c) ==
    \/ CallRequest(c)
    \/ CallInfo(c)
    \/ CallLogin(c)
    \/ CallLogout(c)
    \/ SendFirst(c)
    \/ SendReissue(c)
    \/ LoginPost(c)
    \/ LogoutDelete(c)
    \/ TokenPost(c)
    \/ IamPost(c)

Next == (\E c \in SeqCallers : Step(c)) \/ Expire

Spec == Init /\ [][Next]_vars


\* ------------------------------------------------------ concurrent callers

\* Two threads share one CookieSession with auto_renew; the session cookie
\* has expired, and each thread calls request() once.
InitConc ==
    /\ variant = "cookie"
    /\ auto_renew = TRUE
    /\ timeout = "30s"
    /\ token_url = "-"
    /\ cookies = [k \in Cookies |->
                    IF k = <<ServerHost, "AuthSession">> THEN "expired"
                    ELSE "absent"]
    /\ set_cookie = NoSetCookie
    /\ op = [c \in Callers |-> "none"]
    /\ prevOp = [c \in Callers |-> "none"]
    /\ pc = [c \in Callers |-> "done"]
    /\ ret = [c \in Callers |-> "done"]
    /\ req = [c \in Callers |-> [method |-> "GET", url |-> "/db", kwargs |-> "none"]]
    /\ trace = [c \in Callers |-> <<>>]
    /\ result = [c \in Callers |-> NoResult]
    /\ CodecIdle

\* The requests the threads choose from.
ConcRequests == {r \in Requests : r.kwargs = "params"}

\* The one request() of thread c.
ConcCall(c) ==
    /\ op[c] = "none"
    /\ \E r \in ConcRequests : EnterRequest(c, "request", r)

ConcStep(c) ==
    \/ ConcCall(c)
    \/ SendFirst(c)
    \/ LoginPost(c)
    \/ SendReissue(c)

NextConc == \E c \in Callers : ConcStep(c)

\* Every thread is scheduled again and again, and every transport call
\* ends, with a response or with the transport's exception.
SpecConc ==
    InitConc /\ [][NextConc]_vars /\ \A c \in Callers : WF_vars(ConcStep(c))

\* ---------------------------------------------- the functions of the codec

OptionKeys == DOMAIN RESULT_ARG_TYPES \cup {"bogus_key"}

Entry(key, val) == [key |-> key, val |-> val]

\* The entries of the mappings of two options.
PairEntries ==
    {Entry("include_docs", PyBool(TRUE)), Entry("limit", PyInt(5)),
     Entry("skip", PyBool(TRUE)), Entry("stale", PyStr("bogus")),
     Entry("bogus_key", PyInt(0)), Entry("key", PyCode("ok")),
     Entry("keys", PyList(<<Item("str", 0, "a")>>)),
     Entry("keys", PyInt(5)), Entry("keys", PyNone), Entry("keys", PySet)}

\* The mappings given to the functions, in the order of their iteration:
\* no option, one option, two options.
OptionLists ==
    {<<>>}
    \cup {<<Entry(k, v)>> : k \in OptionKeys, v \in Values}
    \cup {p \in {<<a, b>> : a \in PairEntries, b \in PairEntries} :
             p[1].key # p[2].key}

FeedTypes == {"Cloudant", "CouchDB", "normal", "cloudant"}

\* The mappings given to get_docs on a session that renews.
RenewOptionLists == {o \in OptionLists : Len(o) # 1}

InitCodec ==
    /\ fn = "none"
    /\ auto_renew \in BOOLEAN
    /\ options \in (IF auto_renew THEN RenewOptionLists ELSE OptionLists)
    /\ feed = "none"
    /\ issued = <<>>
    /\ produced = NoOut
    /\ variant = "cookie"
    /\ timeout = "None"
    /\ token_url = "-"
    /\ cookies = EmptyJar
    /\ set_cookie = NoSetCookie
    /\ op = [c \in Callers |-> "none"]
    /\ prevOp = [c \in Callers |-> "none"]
    /\ pc = [c \in Callers |-> "done"]
    /\ ret = [c \in Callers |-> "done"]
    /\ req = [c \in Callers |-> [method |-> "GET", url |-> "/db", kwargs |-> "none"]]
    /\ trace = [c \in Callers |-> <<>>]
    /\ result = [c \in Callers |-> NoResult]

\* A function of the codec is applied to the options: the session is not
\* touched.
Apply(name) ==
    /\ fn = "none"
    /\ fn' = name
    /\ UNCHANGED <<options, session, cookies, set_cookie, op, prevOp, pc,
                   ret, req, trace, result>>

\* py_to_couch_validate(key, val)
ApplyValidate ==
    /\ Len(options) = 1
    /\ Apply("py_to_couch_validate")
    /\ produced' =
          IF py_to_couch_validate(options[1].key, options[1].val) = "ok"
          THEN NoOut
          ELSE Raised(py_to_couch_validate(options[1].key, options[1].val))
    /\ UNCHANGED <<feed, issued>>

\* _py_to_couch_translate(key, val)
ApplyTranslate ==
    /\ Len(options) = 1
    /\ Apply("py_to_couch_translate")
    /\ produced' =
          LET t == py_to_couch_translate(options[1].key, options[1].val)
          IN IF t.err # "none" THEN Raised(t.err)
             ELSE [NoOut EXCEPT !.val = t.val,
                                !.map = <<Entry(options[1].key, t.val)>>]
    /\ UNCHANGED <<feed, issued>>

\* python_to_couch(options)
ApplyPythonToCouch ==
    /\ Apply("python_to_couch")
    /\ produced' =
          LET t == python_to_couch(options)
          IN IF t.err # "none" THEN Raised(t.err)
             ELSE [NoOut EXCEPT !.map = t.map]
    /\ UNCHANGED <<feed, issued>>

\* get_docs(r_session, url, headers=headers, **options) up to its first
\* transport call: keys is popped and, unless None, encoded; the other
\* params go through the codec; the error of either leaves get_docs;
\* r_session.post or r_session.get is called, which is the session's
\* request().  Its response comes back through Returned.
CallGetDocs(c) ==
    /\ fn = "none"
    /\ fn' = "get_docs"
    /\ IF RaisedBeforeRequest(options) # "none"
         THEN /\ BeginCall(c, "get_docs", req[c])
              /\ issued' = <<>>
              /\ Finish(c, <<>>, ErrResult(RaisedBeforeRequest(options)))
              /\ UNCHANGED cookies
         ELSE \E headers \in HeaderInputs :
              /\ BeginCall(c, "get_docs",
                           [method |-> DocRequest(options, headers).method,
                            url |-> "/db/_all_docs", kwargs |-> "params"])
              /\ issued' = <<DocRequest(options, headers)>>
              /\ Enter(c)
    /\ UNCHANGED <<options, feed, produced>>

\* feed_arg_types(feed_type)
ApplyFeedArgTypes ==
    /\ options = <<>>
    /\ Apply("feed_arg_types")
    /\ \E feed_type \in FeedTypes :
          /\ feed' = feed_type
          /\ produced' = [NoOut EXCEPT !.table = feed_arg_types(feed_type)]
    /\ UNCHANGED issued

\* get_docs and the request() it runs in the session, for one caller.
DocStep(c) ==
    \/ CallGetDocs(c)
    \/ SendFirst(c)
    \/ LoginPost(c)
    \/ SendReissue(c)

NextCodec ==
    \/ ApplyValidate
    \/ ApplyTranslate
    \/ ApplyPythonToCouch
    \/ ApplyFeedArgTypes
    \/ \E c \in SeqCallers : DocStep(c)

SpecCodec == InitCodec /\ [][NextCodec]_vars

\* ------------------------------------------------- reading a call's trace

IsSend(e, by) == e.ev = "send" /\ e.by = by

\* The attempts of the caller's request sent so far by the running call.
Sends(c) == {i \in DOMAIN trace[c] : IsSend(trace[c][i], "request")}

Events(c, e) == {i \in DOMAIN trace[c] : trace[c][i].ev = e}

LoginCalls(c) == Events(c, "login_call")

First(S) == CHOOSE i \in S : \A j \in S : i <= j

Last(S) == CHOOSE i \in S : \A j \in S : j <= i

FirstSend(c) == trace[c][First(Sends(c))]

LastSend(c) == trace[c][Last(Sends(c))]

SameRequest(e, r) ==
    e.method = r.method /\ e.url = r.url /\ e.kwargs = r.kwargs

\* What request() hands back for the attempt e: the response, or the
\* transport's exception when there was none.
Outcome(e) ==
    IF e.status = 0 THEN ErrResult("RequestException") ELSE RespResult(e)

\* The logins of the call that were entered after its first attempt.
RenewalsAfterFirst(c) == {i \in LoginCalls(c) : i > First(Sends(c))}

Renewed(c, i) == \E j \in Events(c, "login_ret") : j > i

RenewalFailed(c, i) == \E j \in Events(c, "login_raise") : j > i

IsTokenSend(e) == IsSend(e, "token")

IsExchangeSend(e) == IsSend(e, "login") /\ e.url = "_iam_session"

NonSuccess(e) == e.status >= 400

TokenGranted(e) ==
    IsTokenSend(e) /\ e.status # 0 /\ ~NonSuccess(e) /\ e.body = "token"

\* Every attempt of the call's request was sent after a login() had returned.
LoginBeforeSends(c) ==
    \A i \in Sends(c) : \E j \in Events(c, "login_ret") : j < i

CookieRequest(c) ==
    variant = "cookie" /\ auto_renew /\ op[c] = "request" /\ Sends(c) # {}

IAMRequest(c) ==
    variant = "iam" /\ auto_renew /\ op[c] = "request" /\ Sends(c) # {}


\* ------------------------------------------------------------------ claims

\* C1 as stated: on a CookieSession with auto_renew, a request() whose first
\* response is a 401 calls login() exactly once and then reissues the request
\* exactly once, with the same method, url and kwargs, and returns the second
\* response whatever its status.
C1_AlwaysReissued ==
    \A c \in Callers :
        (CookieRequest(c) /\ pc[c] = "done" /\ FirstSend(c).status = 401) =>
            /\ Cardinality(LoginCalls(c)) = 1
            /\ Cardinality(Sends(c)) = 2
            /\ \A i \in Sends(c) : SameRequest(trace[c][i], req[c])
            /\ result[c] = Outcome(LastSend(c))

\* C1, amended: on a CookieSession with auto_renew, a request() whose first
\* response is a 401 calls login() exactly once; when that login() returns,
\* the request is reissued exactly once, after the login, with the same
\* method, url and kwargs, and its outcome is what request() returns, a second
\* 401 included; when that login() raises, request() raises and the request
\* is not sent again.  The request is never sent a third time.
C1_RenewOnceReissueOnce ==
    \A c \in Callers :
        (CookieRequest(c) /\ FirstSend(c).status = 401) =>
            /\ Cardinality(LoginCalls(c)) = 1
            /\ Cardinality(Sends(c)) <= 2
            /\ \A i \in Sends(c) : SameRequest(trace[c][i], req[c])
            /\ First(LoginCalls(c)) = First(Sends(c)) + 1
            /\ \A i \in Sends(c) :
                  i # First(Sends(c)) =>
                      \E j \in Events(c, "login_ret") : j < i
            /\ pc[c] = "done" =>
                  /\ Renewed(c, 1) \/ RenewalFailed(c, 1)
                  /\ Renewed(c, 1) =>
                        /\ Cardinality(Sends(c)) = 2
                        /\ result[c] = Outcome(LastSend(c))
                  /\ RenewalFailed(c, 1) =>
                        /\ Cardinality(Sends(c)) = 1
                        /\ result[c].kind = "error"

\* C1, witness: the reissued request was answered with a second 401, which
\* is what the finished request() returned.
C1_SecondUnauthorizedReturned ==
    \E c \in Callers :
        /\ CookieRequest(c) /\ pc[c] = "done"
        /\ req[c].method = "POST"
        /\ Cardinality(Sends(c)) = 2
        /\ FirstSend(c).status = 401
        /\ LastSend(c).status = 401
        /\ result[c].kind = "resp" /\ result[c].status = 401

\* C2 as stated: login() is invoked at most once while one request() runs,
\* on either session variant.
C2_AtMostOneLogin ==
    \A c \in Callers :
        op[c] = "request" => Cardinality(LoginCalls(c)) <= 1

\* C2, amended: while one request() runs, a CookieSession invokes login() at
\* most once; an IAMSession invokes it at most twice, at most once before the
\* first attempt of the request (the proactive renewal) and at most once
\* after it (the renewal after a 401).
C2_LoginsBounded ==
    \A c \in Callers :
        op[c] = "request" =>
            /\ variant = "cookie" => Cardinality(LoginCalls(c)) <= 1
            /\ variant = "iam" =>
                  /\ Cardinality(LoginCalls(c)) <= 2
                  /\ LoginCalls(c) \ {1} # {} => Sends(c) # {}
                  /\ Sends(c) # {} =>
                        Cardinality(RenewalsAfterFirst(c)) <= 1

\* C2, witness: an IAMSession request() that logged in before its first
\* attempt, got a 401, and logged in again.
C2_TwoLoginsInOneRequest ==
    \E c \in Callers :
        /\ variant = "iam" /\ op[c] = "request" /\ pc[c] = "done"
        /\ Cardinality(LoginCalls(c)) = 2
        /\ Cardinality(Sends(c)) = 2

\* C3: on a CookieSession with auto_renew, the renewal (login() and reissue)
\* is triggered exactly when the first response is a 401, or a 403 whose
\* parsed body has error = "credentials_expired"; a 403 with a body that
\* parses to another error value, and a response with any other status, is
\* returned with no login() and no reissue.
C3_RenewalTrigger ==
    \A c \in Callers :
        (CookieRequest(c) /\ FirstSend(c).status # 0) =>
            LET first == FirstSend(c)
                trigger ==
                    \/ first.status = 401
                    \/ first.status = 403
                         /\ first.body = "json:credentials_expired"
            IN  /\ LoginCalls(c) # {} <=> trigger
                /\ (~trigger /\ ~(first.status = 403
                                   /\ first.body \in {"notjson", "json:nonobject"}))
                      => /\ pc[c] = "done"
                         /\ Cardinality(Sends(c)) = 1
                         /\ result[c] = RespResult(first)

\* C3, witness: a 403 with another error value was returned as it came; no
\* login() ran.
C3_OtherForbiddenReturned ==
    \E c \in Callers :
        /\ CookieRequest(c) /\ pc[c] = "done"
        /\ FirstSend(c).status = 403 /\ FirstSend(c).body = "json:other"
        /\ result[c].kind = "resp" /\ result[c].status = 403
        /\ LoginCalls(c) = {}


\* C4: on an IAMSession with auto_renew, a request() called while no
\* unexpired IAMSession cookie is held (an expired one counts as absent)
\* enters login() first, and every attempt of the caller's request is sent
\* only after that login() has returned.
C4_ProactiveLogin ==
    /\ [][\A c \in Callers :
            ( /\ variant = "iam" /\ auto_renew
              /\ pc[c] = "done" /\ pc'[c] # "done" /\ op'[c] = "request"
              /\ \A h \in Hosts : cookies[<<h, "IAMSession">>] # "live" )
            => /\ trace'[c] = <<Ev("login_call")>>
               /\ pc'[c] = "token_post"]_vars
    /\ [](\A c \in Callers :
            ( /\ variant = "iam" /\ op[c] = "request"
              /\ trace[c] # <<>> /\ trace[c][1].ev = "login_call" )
            => LoginBeforeSends(c))

\* C4, witness: the login ran first and the first attempt then succeeded.
C4_LoginThenFirstAttempt ==
    \E c \in Callers :
        /\ IAMRequest(c) /\ pc[c] = "done"
        /\ trace[c][1].ev = "login_call"
        /\ Cardinality(Sends(c)) = 1
        /\ First(Events(c, "login_ret")) < First(Sends(c))
        /\ result[c].kind = "resp" /\ result[c].status = 200

\* C5 as stated: on an IAMSession with auto_renew, a 401 response makes
\* request() call login() and reissue the request exactly once, returning the
\* reissued response.
C5_AlwaysReissued ==
    \A c \in Callers :
        (IAMRequest(c) /\ pc[c] = "done" /\ FirstSend(c).status = 401) =>
            /\ Cardinality(RenewalsAfterFirst(c)) = 1
            /\ Cardinality(Sends(c)) = 2
            /\ result[c] = Outcome(LastSend(c))

\* C5, amended: on an IAMSession with auto_renew, a 401 response to the first
\* attempt makes request() call login() once; when that login() returns, the
\* request is reissued exactly once and the outcome of the reissue is
\* returned whatever its status; when that login() raises, request() raises
\* and nothing is reissued.  The request is sent at most twice, and a first
\* response with another status is returned without login() or reissue.
C5_RenewOnUnauthorized ==
    \A c \in Callers :
        IAMRequest(c) =>
            LET first == First(Sends(c)) IN
            /\ Cardinality(Sends(c)) <= 2
            /\ \A i \in Sends(c) : SameRequest(trace[c][i], req[c])
            /\ FirstSend(c).status = 401 =>
                  /\ RenewalsAfterFirst(c) = {first + 1}
                  /\ pc[c] = "done" =>
                        /\ Renewed(c, first) \/ RenewalFailed(c, first)
                        /\ Renewed(c, first) =>
                              /\ Cardinality(Sends(c)) = 2
                              /\ result[c] = Outcome(LastSend(c))
                        /\ RenewalFailed(c, first) =>
                              /\ Cardinality(Sends(c)) = 1
                              /\ result[c].kind = "error"
            /\ FirstSend(c).status # 401 =>
                  /\ pc[c] = "done"
                  /\ Cardinality(Sends(c)) = 1
                  /\ RenewalsAfterFirst(c) = {}
                  /\ result[c] = Outcome(FirstSend(c))

\* C5, witness: a 401, a renewal that returned, and a reissue answered 403,
\* which is what request() returned.
C5_ReissuedOnce ==
    \E c \in Callers :
        /\ IAMRequest(c) /\ pc[c] = "done"
        /\ FirstSend(c).status = 401
        /\ Cardinality(Sends(c)) = 2
        /\ LastSend(c).status = 403
        /\ result[c].kind = "resp" /\ result[c].status = 403

\* C6: with auto_renew off, request() of either variant sends the caller's
\* request exactly once, never enters login(), sends nothing else, and
\* returns the response as it came, whatever its status.
C6_DisabledMeansOneAttempt ==
    \A c \in Callers :
        (~auto_renew /\ op[c] = "request") =>
            /\ LoginCalls(c) = {}
            /\ \A i \in DOMAIN trace[c] :
                  /\ IsSend(trace[c][i], "request")
                  /\ SameRequest(trace[c][i], req[c])
            /\ pc[c] = "done" =>
                  /\ Len(trace[c]) = 1
                  /\ result[c] = Outcome(trace[c][1])
            /\ pc[c] # "done" => pc[c] = "req_first" /\ trace[c] = <<>>

\* C6, witness: an IAMSession without a session cookie and with auto_renew
\* off returned the 401 it got.
C6_UnauthorizedReturnedAsIs ==
    \E c \in Callers :
        /\ ~auto_renew /\ variant = "iam" /\ op[c] = "request"
        /\ pc[c] = "done"
        /\ \A h \in Hosts : cookies[<<h, "IAMSession">>] # "live"
        /\ result[c].kind = "resp" /\ result[c].status = 401

\* C7 as stated: a login(), logout() or info() call triggers no renewal
\* login and no reissue of its own request, and fails when it receives a
\* non-success status.
C7_NeverRenews ==
    \A c \in Callers :
        /\ op[c] = "info" =>
              LoginCalls(c) = {} /\ Cardinality(Sends(c)) <= 1
        /\ op[c] = "logout" => LoginCalls(c) = {} /\ Len(trace[c]) <= 1
        /\ op[c] = "login" => Cardinality(LoginCalls(c)) = 1
        /\ ( /\ op[c] \in {"info", "login", "logout"}
             /\ \E i \in DOMAIN trace[c] : NonSuccess(trace[c][i]) )
           => pc[c] = "done" /\ result[c].kind = "error"

\* C7, amended: login() and logout() send each of their own requests at most
\* once, trigger no renewal, and fail as soon as one of them gets a
\* non-success status.  info() is sent through request(): with auto_renew
\* off it is sent once and no login() runs; with auto_renew on it is renewed
\* and reissued like any request (at most two attempts).  info() fails
\* whenever the last response it got has a non-success status.
C7_LoginLogoutNotRetried ==
    \A c \in Callers :
        /\ op[c] = "login" =>
              /\ Cardinality(LoginCalls(c)) = 1
              /\ Sends(c) = {}
              /\ \A i, j \in DOMAIN trace[c] :
                    ( /\ trace[c][i].ev = "send" /\ trace[c][j].ev = "send"
                      /\ trace[c][i].url = trace[c][j].url ) => i = j
              /\ (\E i \in DOMAIN trace[c] : NonSuccess(trace[c][i]))
                    => pc[c] = "done" /\ result[c].kind = "error"
        /\ (op[c] = "logout" /\ variant = "cookie") =>
              /\ LoginCalls(c) = {}
              /\ Len(trace[c]) <= 1
              /\ (\E i \in DOMAIN trace[c] : NonSuccess(trace[c][i]))
                    => pc[c] = "done" /\ result[c] = ErrResult("HTTPError")
        /\ op[c] = "info" =>
              /\ ~auto_renew =>
                    LoginCalls(c) = {} /\ Cardinality(Sends(c)) <= 1
              /\ Cardinality(Sends(c)) <= 2
              /\ \A i \in Sends(c) : SameRequest(trace[c][i], req[c])
              /\ ( /\ pc[c] = "done" /\ Sends(c) # {}
                   /\ Last(Sends(c)) = Len(trace[c])
                   /\ NonSuccess(LastSend(c)) )
                 => result[c].kind = "error"

\* C7, witness: info() on a CookieSession with auto_renew got a 401, logged
\* in, was sent again, got a 401 again and failed.
C7_InfoRenewed ==
    \E c \in Callers :
        /\ op[c] = "info" /\ variant = "cookie" /\ pc[c] = "done"
        /\ Cardinality(LoginCalls(c)) = 1
        /\ Cardinality(Sends(c)) = 2
        /\ LastSend(c).status = 401
        /\ result[c] = ErrResult("HTTPError")

\* The order of login()'s two requests and how each of them fails: a POST to
\* _iam_session comes right after a granted token; a token request that did
\* not grant a token is followed by login() raising and nothing else; a
\* non-success exchange makes login() raise the exchange error.
TokenBeforeExchange ==
    \A c \in Callers : \A i \in DOMAIN trace[c] :
        LET e == trace[c][i] IN
        /\ IsExchangeSend(e) => i > 1 /\ TokenGranted(trace[c][i - 1])
        /\ (IsTokenSend(e) /\ ~TokenGranted(e)) =>
              /\ Len(trace[c]) = i + 1
              /\ trace[c][i + 1].ev = "login_raise"
              /\ pc[c] = "done" /\ result[c].kind = "error"
        /\ (IsExchangeSend(e) /\ NonSuccess(e)) =>
              /\ Len(trace[c]) = i + 1
              /\ trace[c][i + 1].ev = "login_raise"
              /\ pc[c] = "done"
              /\ result[c] = ErrResult(ExchangeFailed)

\* The step in which caller c's token acquisition fails.
TokenStepFails(c) == pc[c] = "token_post" /\ pc'[c] = "done"

SaidOf(headers, n) ==
    IF n = "IAMSession" THEN headers.session
    ELSE IF n = "Other" THEN headers.other
    ELSE "none"

C9_TokenFailuresWrapped ==
    \A c \in Callers : \A i \in DOMAIN trace[c] :
        LET e == trace[c][i] IN
        (IsTokenSend(e) /\ ~TokenGranted(e) /\ pc[c] = "done") =>
            IF e.status = 0 \/ NonSuccess(e)
              THEN result[c].err \in {TokenServiceFailed, TokenServiceMessage}
              ELSE result[c].err = InvalidTokenResponse

\* C10: IAMSession.logout() sends nothing and leaves the cookie jar empty;
\* the request() that follows it, with auto_renew, enters login() before it
\* sends the request.
C10_LogoutClearsJar ==
    \A c \in Callers :
        variant = "iam" =>
            /\ op[c] = "logout" =>
                  /\ pc[c] = "done"
                  /\ trace[c] = <<>>
                  /\ result[c] = NoneResult
                  /\ CookieKeys(cookies) = {}
            /\ (op[c] = "request" /\ prevOp[c] = "logout" /\ auto_renew) =>
                  /\ trace[c] # <<>>
                  /\ trace[c][1].ev = "login_call"
                  /\ LoginBeforeSends(c)

\* C10, witness: the request() after a logout() logged in and was answered.
C10_RequestAfterLogout ==
    \E c \in Callers :
        /\ IAMRequest(c) /\ prevOp[c] = "logout" /\ pc[c] = "done"
        /\ trace[c][1].ev = "login_call"
        /\ result[c].kind = "resp" /\ result[c].status = 200


\* C11: every request that reaches the transport carries the timeout the
\* session was constructed with (the caller's first attempt, the reissue, and
\* the requests of login, logout, info and the token acquisition), and no
\* operation changes the configured timeout.
C11_UniformTimeout ==
    /\ [](\A c \in Callers : \A i \in DOMAIN trace[c] :
            trace[c][i].ev = "send" => trace[c][i].timeout = timeout)
    /\ [][timeout' = timeout]_vars

\* C11, witness: a session with a 30 s timeout whose request() sent the
\* token request, the exchange and the caller's request twice.
C11_AllKindsOfRequestsSent ==
    \E c \in Callers :
        /\ timeout = "30s" /\ pc[c] = "done"
        /\ Cardinality(Sends(c)) = 2
        /\ \E i \in DOMAIN trace[c] : IsTokenSend(trace[c][i])
        /\ \E i \in DOMAIN trace[c] : IsExchangeSend(trace[c][i])

\* C20: when the login() that request() runs for a renewal fails, request()
\* raises, the caller's request is not sent after the failed login and no
\* response is returned; the requests of login() are sent by the base
\* request path, so no login() starts inside a login(), and a request() ends
\* after at most ten events.
C20_FailedRenewalPropagates ==
    \A c \in Callers :
        LET t == trace[c] IN
        /\ \A i \in DOMAIN t :
              ( /\ t[i].ev = "send" /\ t[i].by \in {"login", "token"}
                /\ (t[i].status = 0 \/ NonSuccess(t[i])) )
              => /\ Len(t) = i + 1
                 /\ t[i + 1].ev = "login_raise"
        /\ \A i \in Events(c, "login_raise") :
              /\ i = Len(t)
              /\ pc[c] = "done"
              /\ result[c].kind = "error"
        /\ \A i \in LoginCalls(c) :
              i < Len(t) =>
                  t[i + 1].ev = "send" /\ t[i + 1].by \in {"login", "token"}
        /\ \A i \in DOMAIN t :
              (t[i].ev = "send" /\ t[i].by \in {"login", "token"}) =>
                  /\ i > 1
                  /\ \/ t[i - 1].ev = "login_call"
                     \/ IsTokenSend(t[i - 1]) /\ IsExchangeSend(t[i])
        /\ Len(t) <= 10

\* C20, witness: a CookieSession request() got a 401, its login() got a 500,
\* and request() raised after one attempt.
C20_RenewalRefused ==
    \E c \in Callers :
        /\ CookieRequest(c) /\ pc[c] = "done"
        /\ FirstSend(c).status = 401
        /\ Len(trace[c]) = 4
        /\ trace[c][3].by = "login" /\ trace[c][3].status = 500
        /\ trace[c][4].ev = "login_raise"
        /\ Cardinality(Sends(c)) = 1
        /\ result[c] = ErrResult("HTTPError")


\* C13: two threads use one CookieSession with auto_renew after the cookie
\* expired, one request() each.  In every interleaving each thread enters
\* login() at most once and sends its own request at most twice, the second
\* time only after its own login() returned, and every call ends.  (That a
\* thread can still be handed a 401 is the witness below.)
C13_RaceBounded ==
    /\ [](\A c \in Callers :
            /\ Cardinality(LoginCalls(c)) <= 1
            /\ Cardinality(Sends(c)) <= 2
            /\ \A i \in Sends(c) : SameRequest(trace[c][i], req[c])
            /\ Cardinality(Sends(c)) = 2 =>
                  /\ IsExpired(FirstSend(c))
                  /\ \E j \in Events(c, "login_ret") : j < Last(Sends(c)))
    /\ <>(\A c \in Callers :
            /\ op[c] = "request" /\ pc[c] = "done"
            /\ result[c].kind \in {"resp", "error"})

\* C13, witness: a thread got a 401 twice and was handed the second one,
\* while the renewal of the other thread was still in progress.
C13_UnauthorizedDuringOtherRenewal ==
    \E c, d \in Callers :
        /\ c # d
        /\ pc[c] = "done" /\ Cardinality(Sends(c)) = 2
        /\ FirstSend(c).status = 401
        /\ result[c].kind = "resp" /\ result[c].status = 401
        /\ pc[d] = "login_post" /\ Cardinality(Sends(d)) = 1

\* -------------------------------------------------- reading the codec's run

\* The one option a function was applied to.
TheKey == options[1].key

TheVal == options[1].val

\* The function `name` was applied to a mapping of one option.
AppliedToOne(name) == fn = name /\ Len(options) = 1

CodecErrors ==
    {"UnknownOption", "InvalidType", "InvalidKeyListItem",
     "InvalidStaleValue", "ConversionError"}

\* C14: py_to_couch_validate raises UnknownOption exactly for the keys
\* outside RESULT_ARG_TYPES; for a key of the table it raises InvalidType
\* exactly when the value is of no declared type or is a boolean where an
\* integer is declared, and a value of a declared type passes (for keys and
\* stale, whose content is checked as well, it is at least not an
\* InvalidType).  skip=True is rejected, skip=5 is accepted.
C14_ValidateByTable ==
    AppliedToOne("py_to_couch_validate") =>
        /\ TheKey \notin DOMAIN RESULT_ARG_TYPES
              <=> produced.err = "UnknownOption"
        /\ TheKey \in DOMAIN RESULT_ARG_TYPES =>
              /\ produced.err = "InvalidType"
                    <=> \/ ~IsInstanceAny(TheVal.kind, RESULT_ARG_TYPES[TheKey])
                        \/ /\ TheVal.kind = "bool"
                           /\ "int" \in RESULT_ARG_TYPES[TheKey]
              /\ (TheKey \notin {"keys", "stale"}
                  /\ produced.err # "InvalidType") => produced.err = "none"
        /\ (TheKey = "skip" /\ TheVal = PyInt(5)) => produced.err = "none"
        /\ (TheKey = "skip" /\ TheVal.kind = "bool")
              => produced.err = "InvalidType"

\* C14, witness: skip=True was validated and rejected as InvalidType.
C14_BoolForSkipRejected ==
    /\ AppliedToOne("py_to_couch_validate")
    /\ TheKey = "skip" /\ TheVal = PyBool(TRUE)
    /\ produced.err = "InvalidType"

\* What C15 expects for a validated option.
ExpectedEncoding(key, val) ==
    IF key \in {"keys", "endkey_docid", "startkey_docid", "stale"} THEN val
    ELSE CASE val.kind = "bool" ->
                 PyStr(IF val = PyBool(TRUE) THEN "true" ELSE "false")
           [] val.kind = "int" -> val
           [] val.kind = "str" -> PyStr("\"" \o val.s \o "\"")
           [] val.kind = "none" -> PyNone
           [] OTHER -> val

\* C15: when python_to_couch returns, the mapping has every option under
\* its own key: a boolean as the string "true" or "false", an integer as
\* the same integer, a string JSON-quoted, None as None, and the value of
\* keys, endkey_docid, startkey_docid and stale unchanged.
C15_EncodedByKind ==
    (fn = "python_to_couch" /\ produced.err = "none") =>
        /\ Len(produced.map) = Len(options)
        /\ \A i \in 1..Len(options) :
              /\ produced.map[i].key = options[i].key
              /\ (\/ options[i].key \in PassthroughKeys
                  \/ options[i].val.kind \in {"bool", "int", "str", "none"})
                 => produced.map[i].val
                       = ExpectedEncoding(options[i].key, options[i].val)
        /\ options = <<Entry("include_docs", PyBool(TRUE))>>
              => produced.map = <<Entry("include_docs", PyStr("true"))>>
        /\ options = <<Entry("limit", PyInt(5))>>
              => produced.map = <<Entry("limit", PyInt(5))>>
        /\ options = <<Entry("key", PyStr("foo"))>>
              => produced.map = <<Entry("key", PyStr("\"foo\""))>>

\* C15, witness: two options were translated, a boolean and an integer.
C15_BoolAndIntTranslated ==
    /\ fn = "python_to_couch"
    /\ options = <<Entry("include_docs", PyBool(TRUE)), Entry("limit", PyInt(5))>>
    /\ produced.err = "none"
    /\ produced.map
          = <<Entry("include_docs", PyStr("true")), Entry("limit", PyInt(5))>>

\* C17: python_to_couch of the one option stale, a string, returns exactly
\* when the string is "ok" or "update_after", and then it returns the value
\* unchanged; for any other string it raises InvalidStaleValue and returns
\* no mapping.  A mapping that holds such a stale value is never translated.
C17_StaleValues ==
    fn = "python_to_couch" =>
        /\ (Len(options) = 1 /\ TheKey = "stale" /\ TheVal.kind = "str") =>
              IF TheVal.s \in {"ok", "update_after"}
              THEN /\ produced.err = "none"
                   /\ produced.map = <<Entry("stale", TheVal)>>
              ELSE /\ produced.err = "InvalidStaleValue"
                   /\ produced.map = <<>>
        /\ (\E i \in 1..Len(options) :
                /\ options[i].key = "stale"
                /\ options[i].val.kind = "str"
                /\ options[i].val.s \notin {"ok", "update_after"})
              => produced.err \in CodecErrors /\ produced.map = <<>>

\* C17, witness: stale="update_after" was translated.
C17_UpdateAfterTranslated ==
    /\ AppliedToOne("python_to_couch")
    /\ options = <<Entry("stale", PyStr("update_after"))>>
    /\ produced.err = "none"

\* C18: the table for "Cloudant" has every key of the table for "CouchDB"
\* and more; doc_ids, conflicts, filter and style are in neither of the two
\* and are in the table every other feed type gets, which has every key of
\* the table for "Cloudant".
C18_FeedTables ==
    fn = "feed_arg_types" =>
        /\ feed = "Cloudant" =>
              /\ DOMAIN feed_arg_types("CouchDB") \subseteq DOMAIN produced.table
              /\ DOMAIN feed_arg_types("CouchDB") # DOMAIN produced.table
        /\ feed = "CouchDB" =>
              /\ DOMAIN produced.table \subseteq DOMAIN feed_arg_types("Cloudant")
              /\ DOMAIN produced.table # DOMAIN feed_arg_types("Cloudant")
        /\ feed \in {"Cloudant", "CouchDB"} =>
              DOMAIN produced.table
                 \cap {"doc_ids", "conflicts", "filter", "style"} = {}
        /\ feed \notin {"Cloudant", "CouchDB"} =>
              /\ {"doc_ids", "conflicts", "filter", "style"}
                    \subseteq DOMAIN produced.table
              /\ DOMAIN feed_arg_types("Cloudant") \subseteq DOMAIN produced.table

\* C18, witness: the table for "Cloudant" was returned, with the keys of
\* the CouchDB table and its own.
C18_CloudantTableReturned ==
    /\ fn = "feed_arg_types" /\ feed = "Cloudant"
    /\ {"feed", "timeout", "since"} \subseteq DOMAIN produced.table

\* C19: _py_to_couch_translate raises no ConversionError for an option that
\* py_to_couch_validate accepts, and for key, startkey and endkey a string
\* and a sequence of any admitted type come back as their JSON text.
C19_AcceptedIsConverted ==
    (/\ AppliedToOne("py_to_couch_translate")
     /\ py_to_couch_validate(TheKey, TheVal) = "ok") =>
        /\ produced.err # "ConversionError"
        /\ (/\ TheKey \in {"key", "startkey", "endkey"}
            /\ IsInstance(TheVal.kind, "Sequence"))
              => produced.val = PyStr(JsonDumps(TheVal))

\* C12: get_docs raises the codec's error and sends nothing whenever one of
\* its params is an unknown option, has a value of a wrong type or is an
\* invalid stale value (keys=None counts as no keys given); python_to_couch
\* returns no mapping when it raises, and a value that fails the validation
\* raises the validation's error, not the conversion's.
C12_InvalidParamsNeverSent ==
    /\ \A c \in Callers : op[c] = "get_docs" =>
          \A i \in 1..Len(options) :
             (/\ py_to_couch_validate(options[i].key, options[i].val)
                    \in {"UnknownOption", "InvalidType", "InvalidStaleValue"}
              /\ ~(options[i].key = "keys" /\ options[i].val = PyNone))
                => /\ result[c].kind = "error"
                   /\ result[c].err \in CodecErrors
                   /\ issued = <<>>
                   /\ trace[c] = <<>>
    /\ fn = "python_to_couch" =>
          /\ produced.err # "none" => produced.map = <<>>
          /\ (Len(options) = 1
              /\ py_to_couch_validate(TheKey, TheVal) # "ok")
                => produced.err = py_to_couch_validate(TheKey, TheVal)

\* The server's reading of an array: its elements, split at the commas
\* outside strings, blanks outside strings dropped.
RECURSIVE ArrayTokens(_, _, _, _)
ArrayTokens(text, i, token, quoted) ==
    IF i > Len(text) THEN (IF token = "" THEN <<>> ELSE <<token>>)
    ELSE LET ch == SubSeq(text, i, i)
         IN IF ch = "\"" THEN ArrayTokens(text, i + 1, token \o ch, ~quoted)
            ELSE IF ~quoted /\ ch = ","
                 THEN <<token>> \o ArrayTokens(text, i + 1, "", FALSE)
            ELSE IF ~quoted /\ ch = " "
                 THEN ArrayTokens(text, i + 1, token, quoted)
            ELSE ArrayTokens(text, i + 1, token \o ch, quoted)

Digit(ch) ==
    CASE ch = "0" -> 0 [] ch = "1" -> 1 [] ch = "2" -> 2 [] ch = "3" -> 3
      [] ch = "4" -> 4 [] ch = "5" -> 5 [] ch = "6" -> 6 [] ch = "7" -> 7
      [] ch = "8" -> 8 [] ch = "9" -> 9

RECURSIVE ParseInt(_)
ParseInt(text) ==
    IF Len(text) = 1 THEN Digit(text)
    ELSE ParseInt(SubSeq(text, 1, Len(text) - 1)) * 10
         + Digit(SubSeq(text, Len(text), Len(text)))

\* One element: a string in double quotes, true, false, or an integer.
ParseItem(token) ==
    IF SubSeq(token, 1, 1) = "\""
    THEN Item("str", 0, SubSeq(token, 2, Len(token) - 1))
    ELSE IF token = "true" THEN Item("bool", 1, "")
    ELSE IF token = "false" THEN Item("bool", 0, "")
    ELSE Item("int", ParseInt(token), "")

\* The keys the server reads from the body {"keys": [...]}; a body of
\* another form has none to read.
JsonLoadsKeys(body) ==
    IF /\ Len(body) >= 12
       /\ SubSeq(body, 1, 10) = "{\"keys\": ["
       /\ SubSeq(body, Len(body) - 1, Len(body)) = "]}"
    THEN LET tokens == ArrayTokens(SubSeq(body, 11, Len(body) - 2), 1, "", FALSE)
         IN [i \in 1..Len(tokens) |-> ParseItem(tokens[i])]
    ELSE <<Item("malformed", 0, body)>>

\* The one request of a get_docs that got as far as the network.
TheRequest == issued[1]

\* get_docs was left by an exception before it called the session.
RaisedBeforeCalling(c) ==
    /\ result[c].kind = "error"
    /\ result[c].err \in CodecErrors \cup {"TypeError"}
    /\ trace[c] = <<>>

\* get_docs was left by an error of the codec.
RaisedByCodec(c) == result[c].kind = "error" /\ result[c].err \in CodecErrors

\* A keys parameter is present: keys was given with a value other than None
\* (get_docs tests "is not None", so keys=None is keys absent).
KeysPresent == KeysList(options) # PyNone

\* The request get_docs issued is the one the statement describes: with
\* keys present a POST with Content-Type application/json whose body is the
\* JSON object {"keys": ...}, from which the server reads the keys of a
\* sequence in their order; with keys absent a GET without a body; its
\* params are the translation of the params other than keys; it is the
\* request the session sends.
RequestAsDescribed(c) ==
    /\ KeysPresent =>
          /\ TheRequest.method = "POST"
          /\ TheRequest.data.kind = "str"
          /\ <<"Content-Type", "application/json">>
                \in TheRequest.headers.fields
          /\ \A f \in TheRequest.headers.fields :
                f[1] = "Content-Type" => f[2] = "application/json"
          /\ KeysList(options).kind \in {"list", "tuple", "namedtuple"}
                => JsonLoadsKeys(TheRequest.data.s) = KeysList(options).items
    /\ ~KeysPresent =>
          /\ TheRequest.method = "GET"
          /\ TheRequest.data = PyNone
    /\ \A i \in 1..Len(TheRequest.params) :
          /\ TheRequest.params[i].key # "keys"
          /\ \E j \in 1..Len(options) :
                /\ options[j].key = TheRequest.params[i].key
                /\ TheRequest.params[i].val
                      = python_to_couch(<<options[j]>>).map[1].val
                /\ options[j].val.kind \in {"bool", "int", "str", "none"}
                      => TheRequest.params[i].val
                            = ExpectedEncoding(options[j].key, options[j].val)
    /\ Len(TheRequest.params)
          = Cardinality({j \in 1..Len(options) : options[j].key # "keys"})
    /\ \A i \in Sends(c) :
          /\ trace[c][i].method = TheRequest.method
          /\ trace[c][i].url = "/db/_all_docs"

\* C16 as stated: every call of get_docs issues exactly one request, a POST
\* with the keys as its JSON body and Content-Type application/json when
\* keys is present, a GET when it is absent, the remaining params run
\* through the codec; a response whose status is not 2xx raises.
C16_ExactlyOneRequest ==
    \A c \in Callers :
        (op[c] = "get_docs" /\ pc[c] = "done") =>
            /\ Len(issued) = 1
            /\ RequestAsDescribed(c)
            /\ Sends(c) # {}
            /\ ~(LastSend(c).status >= 200 /\ LastSend(c).status < 300)
                  => result[c].kind = "error"

\* C16, amended: get_docs issues at most one request per call, and exactly
\* one unless it raises before it calls the session, which it does, with
\* nothing sent, when json has no encoding for the given keys (TypeError,
\* whatever the other params are) and when one of the other params fails
\* the codec.  The request is as described: with keys present a POST with
\* Content-Type application/json whose body is the JSON object
\* {"keys": ...}, from which the server reads the same keys in the same
\* order; with keys absent a GET without a body; the params of the request
\* are the translation of the params other than keys.  The session sends
\* this request, once when it does not renew and at most twice when it
\* does.  A response that request() returns with a 4xx or 5xx status raises
\* HTTPError; a response with another status, a 304 like a 200, is
\* returned.
C16_OneRequestAsGiven ==
    \A c \in Callers : op[c] = "get_docs" =>
        /\ Len(issued) <= 1
        /\ Len(issued) = 1 <=> ~RaisedBeforeCalling(c)
        /\ RaisedBeforeCalling(c) => pc[c] = "done"
        /\ (KeysPresent /\ KeysList(options).kind = "set")
              <=> result[c] = ErrResult("TypeError")
        /\ ( /\ ~(KeysPresent /\ KeysList(options).kind = "set")
             /\ \E i \in 1..Len(options) :
                   /\ options[i].key # "keys"
                   /\ python_to_couch(<<options[i]>>).err # "none" )
              <=> RaisedByCodec(c)
        /\ Len(issued) = 1 =>
              /\ RequestAsDescribed(c)
              /\ Cardinality(Sends(c)) <= 2
              /\ (pc[c] = "done" /\ ~auto_renew) => Len(trace[c]) = 1
              /\ (pc[c] = "done" /\ Sends(c) # {}) =>
                    /\ Cardinality(Sends(c)) >= 1
                    /\ result[c].kind = "resp" =>
                          /\ result[c] = RespResult(LastSend(c))
                          /\ result[c].status < 400
                    /\ NonSuccess(LastSend(c)) => result[c].kind = "error"
                    /\ LastSend(c).status \in {200, 304} =>
                          result[c] = RespResult(LastSend(c))
                    /\ ~auto_renew =>
                          result[c] =
                             IF LastSend(c).status = 0
                             THEN ErrResult("RequestException")
                             ELSE IF NonSuccess(LastSend(c))
                             THEN ErrResult("HTTPError")
                             ELSE RespResult(LastSend(c))

\* C16, witness: the keys ["a", 1] were posted, in this order, in one
\* request; the answer was a 304, which get_docs returned.
C16_KeysPostedInOrder ==
    \E c \in Callers :
        /\ op[c] = "get_docs" /\ pc[c] = "done"
        /\ options = <<Entry("keys", PyList(<<Item("str", 0, "a"), Item("int", 1, "")>>))>>
        /\ Len(issued) = 1
        /\ TheRequest.method = "POST"
        /\ TheRequest.data = PyStr("{\"keys\": [\"a\", 1]}")
        /\ Cardinality(Sends(c)) = 1
        /\ FirstSend(c).method = "POST"
        /\ FirstSend(c).status = 304
        /\ result[c].kind = "resp" /\ result[c].status = 304

====
